---------------------------- MODULE Spec2Model ----------------------------
(***************************************************************************)
(* Model of the log anomaly detection service:                             *)
(*   - src/anomaly_detector.py   LogAnomalyDetector (rule based detection  *)
(*                               cycle over the logs fetched from Loki)    *)
(*   - src/anomaly/alert_handler.py  AlertHandler (alert history, severity,*)
(*                               notifiers, summary)                       *)
(*   - src/anomaly/detect.py     the metric loop with its training window  *)
(*                                                                         *)
(* Numbers.  Scores and weights are Python floats in the source; they are  *)
(* modelled in hundredths (0.4 is 40).  For every subset of the five rule  *)
(* weights the float sum compares with 0.5, 0.8 and 1.0 exactly as the     *)
(* integer sum compares with 50, 80 and 100 (0.4 + 0.1 and 0.3 + 0.2 are   *)
(* exactly 0.5 in IEEE doubles, 0.4 + 0.3 + 0.1 is just below 0.8).        *)
(* Wall-clock time is modelled in hours.                                   *)
(***************************************************************************)
EXTENDS Integers, Sequences, FiniteSets, TLC

VARIABLES
    \* ---- LogAnomalyDetector (src/anomaly_detector.py) ----
    dpc,            \* "idle" between cycles, "done" when run_detection_cycle
                    \* returned, "crashed" when an exception left it
    response,       \* what Loki answered to the fetch of the cycle
    logs,           \* what fetch_logs_from_loki returned in the cycle
    df,             \* the rows extract_features produced
    anomalies,      \* what detect_anomalies returned
    detect_raised,  \* the except branch of detect_anomalies was taken
    pushed,         \* number of push requests process_anomalies issued
    push_errors,    \* number of them that failed and were logged
    \* ---- AlertHandler (src/anomaly/alert_handler.py) ----
    webhook_url,    \* "" when no webhook is configured
    alert_history,  \* self.alert_history
    now,            \* datetime.utcnow(), in hours
    delivered,      \* the alerts the webhook accepted
    call_log,       \* the anomaly_data of every send_alert call made, in call order
    summary,        \* the outputs of the latest get_alert_summary calls made
                    \* since the last send_alert (at most two, oldest first),
                    \* each with its argument and the time of the call
    \* ---- _determine_severity called on its own ----
    sev_in,         \* << >>, or the one anomaly_data it was called with
    sev_out,        \* what it returned
    \* ---- the metric loop (src/anomaly/detect.py) ----
    historical_features,  \* the training window; a vector is named by the
                          \* number of the append that stored it
    appended,       \* number of appends made so far
    outcome,        \* how the latest pass of the loop ended, or "querying"
                    \* while it waits for Loki, or "blocked" on a call
                    \* that does not return
    loop_pushed     \* number of results pushed to Loki

detector_vars ==
    <<dpc, response, logs, df, anomalies, detect_raised, pushed, push_errors>>

alert_vars == <<webhook_url, alert_history, now, delivered, call_log, summary>>

severity_vars == <<sev_in, sev_out>>

loop_vars == <<historical_features, appended, outcome, loop_pushed>>

vars == <<detector_vars, alert_vars, severity_vars, loop_vars>>

-----------------------------------------------------------------------------
(***************************************************************************)
(* Bounds of the model.                                                    *)
(***************************************************************************)
MaxBatch == 5

MaxCalls == 2

MaxClock == 2

MaxHours == 1

MaxScore == 130

MaxAppends == 103

-----------------------------------------------------------------------------
(***************************************************************************)
(* Log records.  A log entry is the dict json.loads returned.  The field   *)
(* strs names the numeric fields whose JSON value is a string spelling the *)
(* number ("3000" rather than 3000): float() and int() accept it, an       *)
(* ordering comparison with a number raises TypeError.  The field nulls    *)
(* names the fields whose JSON value is null, and nums the string fields   *)
(* whose JSON value is a number.  A key the dict lacks is a field the log  *)
(* line did not have.                                                      *)
(***************************************************************************)
SUSPICIOUS == "/api/suspicious"

Endpoints == {"/x", SUSPICIOUS}

\* '/api/suspicious' in endpoint, over the endpoints of the model
IsSuspiciousEndpoint(endpoint) == endpoint = SUSPICIOUS

StatusCodes == {200, 499, 500, 503}

ResponseTimes == {100, 2000, 2001, 5000, 5001}

AnomalyScores == {70, 71}

ResponseSizes == {1000, 1001}

StrFields == {{}, {"response_time_ms"}, {"response_size"}, {"status_code"}}

LogRecords ==
    [endpoint : Endpoints, status_code : StatusCodes,
     response_time_ms : ResponseTimes,
     suspicious_behavior : BOOLEAN, unusual_pattern : BOOLEAN,
     anomaly_score : AnomalyScores, response_size : ResponseSizes,
     strs : StrFields]

\* a normal low-latency request that succeeded
NormalRecord ==
    [endpoint |-> "/x", status_code |-> 200, response_time_ms |-> 100,
     suspicious_behavior |-> FALSE, unusual_pattern |-> FALSE,
     anomaly_score |-> 70, response_size |-> 1000, strs |-> {}]

\* the same request failing with a server error
ErrorRecord == [NormalRecord EXCEPT !.status_code = 500]

\* a request on the suspicious endpoint whose response_size is a string
MalformedRecord ==
    [NormalRecord EXCEPT !.endpoint = SUSPICIOUS, !.strs = {"response_size"}]

Fillers == {NormalRecord, ErrorRecord, MalformedRecord}

Rep(x, n) == [i \in 1..n |-> x]

\* dict.get(key, default)
Get(d, key, default) == IF key \in DOMAIN d THEN d[key] ELSE default

\* the value of the field is a str: comparing it with a number raises
IsStr(raw_log, key) == key \in Get(raw_log, "strs", {})

\* the value of the field is None
IsNull(log, key) == key \in Get(log, "nulls", {})

\* the value of the field is an int where a str is expected
IsNum(log, key) == key \in Get(log, "nums", {})

\* a request as log_request writes it (src/app.py lines 39-48), failing
\* with status 500 and carrying the two hints of the suspicious endpoint
LoggedRequest ==
    [timestamp |-> "2025-01-06T10:30:00.123456", endpoint |-> "/x",
     status_code |-> 500, response_time_ms |-> 100, user_agent |-> "curl/8",
     anomaly_score |-> 70, suspicious_behavior |-> TRUE]

OptionalFields == DOMAIN LoggedRequest

Without(log, keys) == [key \in (DOMAIN log) \ keys |-> log[key]]

With(log, key, value) ==
    [k \in (DOMAIN log) \cup {key} |-> IF k = key THEN value ELSE log[k]]

\* the texts a timestamp field holds in the model
TimestampTexts ==
    {"2025-01-06T10:30:00Z", "2025-01-06T10:30:00.123456",
     "2025-01-06 10:30:00.123456", "2025-01-06 10:30:00.5",
     "", "   ", "not-a-date"}

\* an epoch number where the ISO text is expected
EpochRecord ==
    With([LoggedRequest EXCEPT !.timestamp = "1736159400"], "nums", {"timestamp"})

\* a logged request whose response_time_ms is null
NullRecord == With(LoggedRequest, "nulls", {"response_time_ms"})

NullFields == {{"timestamp"}, {"response_time_ms"}, {"status_code"},
               {"endpoint"}, {"user_agent"}, {"anomaly_score"}}

\* the records extract_features is studied on: a logged request lacking any
\* subset of its fields, or with any of the timestamp texts, or with an
\* epoch timestamp, or with a null field
ExtractRecords ==
         {Without(LoggedRequest, keys) : keys \in SUBSET OptionalFields}
    \cup {[LoggedRequest EXCEPT !.timestamp = text] : text \in TimestampTexts}
    \cup {EpochRecord}
    \cup {With(LoggedRequest, "nulls", fields) : fields \in NullFields}

-----------------------------------------------------------------------------
(***************************************************************************)
(* extract_features: one row per log whose fields convert.  A datetime is  *)
(* the record of the components the features read (hour, minute and        *)
(* weekday) and of whether it is the time of processing.                   *)
(***************************************************************************)
\* str.strip over the texts of the model
Strip(text) == IF text \in {"", "   "} THEN "" ELSE text

\* str.replace('Z', '+00:00') over the texts of the model
ReplaceZ(text) ==
    IF text = "2025-01-06T10:30:00Z" THEN "2025-01-06T10:30:00+00:00" ELSE text

\* the texts datetime.fromisoformat parses (one fractional digit is
\* rejected before Python 3.11 and parsed to the same datetime from 3.11)
IsoFormatTexts ==
    {"2025-01-06T10:30:00+00:00", "2025-01-06T10:30:00.123456",
     "2025-01-06 10:30:00.123456"}

\* the texts strptime parses with '%Y-%m-%d %H:%M:%S.%f'
StrptimeTexts == {"2025-01-06 10:30:00.123456", "2025-01-06 10:30:00.5"}

\* 2025-01-06 is a Monday
ParsedDatetime == [hour |-> 10, minute |-> 30, day_of_week |-> 0, utcnow |-> FALSE]

\* datetime.utcnow(), the clock counting hours from a Monday midnight
UtcNow ==
    [hour |-> now % 24, minute |-> 0, day_of_week |-> (now \div 24) % 7,
     utcnow |-> TRUE]

\* lines 118-119: the else branch of line 128 is taken
TimestampIsBlank(log) ==
    \/ "timestamp" \notin DOMAIN log
    \/ IsNull(log, "timestamp")
    \/ Strip(log.timestamp) = ""

\* line 119: strip is called on a value that is not a str
TimestampRaises(log) ==
    /\ "timestamp" \in DOMAIN log
    /\ IsNum(log, "timestamp")

\* lines 118-130
ParseTimestamp(log) ==
    IF TimestampIsBlank(log) THEN UtcNow
    ELSE IF ReplaceZ(log.timestamp) \in IsoFormatTexts THEN ParsedDatetime
    ELSE IF log.timestamp \in StrptimeTexts THEN ParsedDatetime
    ELSE UtcNow

\* lines 134-147: float(None), int(None) and len(None) raise TypeError
ConversionRaises(log) ==
    \/ IsNull(log, "response_time_ms")
    \/ IsNull(log, "status_code")
    \/ IsNull(log, "endpoint")
    \/ IsNull(log, "user_agent")
    \/ IsNull(log, "anomaly_score")

\* lines 158-160: the record is logged and skipped
ExtractionRaises(log) == TimestampRaises(log) \/ ConversionRaises(log)

\* FeatureStatusCode with 0 for a missing status_code
FeatureStatusCodeOrZero(log) == Get(log, "status_code", 0)

\* line 135: int() of a number or of the text of a number
FeatureStatusCode(log) == Get(log, "status_code", 200)

\* lines 133-154: the row of log number src of the batch (raw_log is that
\* dict object itself, which src stands for)
FeatureRow(log, src) ==
    [response_time_ms |-> Get(log, "response_time_ms", 0),
     status_code |-> FeatureStatusCode(log),
     hour |-> ParseTimestamp(log).hour,
     minute |-> ParseTimestamp(log).minute,
     day_of_week |-> ParseTimestamp(log).day_of_week,
     endpoint_length |-> Len(Get(log, "endpoint", "")),
     user_agent_length |-> Len(Get(log, "user_agent", "")),
     timestamp |-> ParseTimestamp(log),
     anomaly_score |-> Get(log, "anomaly_score", 0),
     suspicious_behavior |-> IF Get(log, "suspicious_behavior", FALSE) THEN 1 ELSE 0,
     raw_log |-> log,
     src |-> src]

\* lines 115-160: the loop over the logs from log i on
RECURSIVE ExtractFrom(_, _, _)
ExtractFrom(ls, i, features) ==
    IF i > Len(ls) THEN features
    ELSE IF ExtractionRaises(ls[i])
    THEN ExtractFrom(ls, i + 1, features)
    ELSE ExtractFrom(ls, i + 1, Append(features, FeatureRow(ls[i], i)))

\* lines 108-162
extract_features(ls) == ExtractFrom(ls, 1, << >>)

-----------------------------------------------------------------------------
(***************************************************************************)
(* detect_anomalies.  A reason is the tuple of its tag and, where the      *)
(* source formats a value into it, that value (the formats .2f and .0f     *)
(* print the modelled values unchanged).  Each anomaly carries row, the    *)
(* number in the batch of the log it was built from: raw_log is that dict  *)
(* object, and two logs with equal fields are still two records.           *)
(***************************************************************************)
MIN_ROWS == 5

\* lines 181-209: the weighted indicators of a record on the suspicious
\* endpoint, in the order the source evaluates them: what each adds to
\* anomaly_score and to anomaly_reasons
IndicatorScore(raw_log) ==
      (IF Get(raw_log, "suspicious_behavior", FALSE) THEN 40 ELSE 0)
    + (IF Get(raw_log, "unusual_pattern", FALSE) THEN 30 ELSE 0)
    + (IF Get(raw_log, "anomaly_score", 0) > 70 THEN 30 ELSE 0)
    + (IF Get(raw_log, "response_time_ms", 0) > 2000 THEN 20 ELSE 0)
    + (IF Get(raw_log, "response_size", 0) > 1000 THEN 10 ELSE 0)

IndicatorReasons(raw_log) ==
       (IF Get(raw_log, "suspicious_behavior", FALSE)
        THEN << <<"suspicious_behavior_flag">> >> ELSE << >>)
    \o (IF Get(raw_log, "unusual_pattern", FALSE)
        THEN << <<"unusual_pattern_flag">> >> ELSE << >>)
    \o (IF Get(raw_log, "anomaly_score", 0) > 70
        THEN << <<"high_anomaly_score", Get(raw_log, "anomaly_score", 0)>> >>
        ELSE << >>)
    \o (IF Get(raw_log, "response_time_ms", 0) > 2000
        THEN << <<"slow_response", Get(raw_log, "response_time_ms", 0)>> >>
        ELSE << >>)
    \o (IF Get(raw_log, "response_size", 0) > 1000
        THEN << <<"large_response", Get(raw_log, "response_size", 0)>> >>
        ELSE << >>)

\* one of the three comparisons (lines 195, 201, 207) raises TypeError
IndicatorsRaise(raw_log) ==
    \/ IsStr(raw_log, "anomaly_score")
    \/ IsStr(raw_log, "response_time_ms")
    \/ IsStr(raw_log, "response_size")

\* lines 174-222: the body of the first loop for row i; the anomalies it
\* appends and whether it raised
SuspiciousEndpointRule(rows, i) ==
    LET raw_log == rows[i].raw_log
        endpoint == Get(raw_log, "endpoint", "")
    IN  IF ~IsSuspiciousEndpoint(endpoint)
        THEN [raised |-> FALSE, out |-> << >>]
        ELSE IF IndicatorsRaise(raw_log)
        THEN [raised |-> TRUE, out |-> << >>]
        ELSE IF IndicatorScore(raw_log) > 50
        THEN [raised |-> FALSE,
              out |-> << [type |-> "suspicious_endpoint_anomaly",
                          score |-> IndicatorScore(raw_log),
                          endpoint |-> endpoint,
                          reasons |-> IndicatorReasons(raw_log),
                          raw_log |-> raw_log, row |-> rows[i].src] >>]
        ELSE [raised |-> FALSE, out |-> << >>]

\* line 235
IsExtremelySlow(response_time) == response_time > 5000

\* IsServerError with the status 500 itself left out
IsServerErrorAbove500(status_code) == status_code > 500

\* line 249
IsServerError(status_code) == status_code >= 500

\* lines 225-259: the body of the second loop for row i
StandaloneRules(rows, i) ==
    LET raw_log == rows[i].raw_log
        endpoint == Get(raw_log, "endpoint", "")
        response_time == Get(raw_log, "response_time_ms", 0)
        status_code == Get(raw_log, "status_code", 200)
        perf == IF IsExtremelySlow(response_time)
                THEN << [type |-> "performance_anomaly", score |-> 80,
                         endpoint |-> endpoint,
                         reasons |-> << <<"extremely_slow_response", response_time>> >>,
                         raw_log |-> raw_log, row |-> rows[i].src] >>
                ELSE << >>
        err  == IF IsServerError(status_code)
                THEN << [type |-> "error_anomaly", score |-> 90,
                         endpoint |-> endpoint,
                         reasons |-> << <<"server_error", status_code>> >>,
                         raw_log |-> raw_log, row |-> rows[i].src] >>
                ELSE << >>
    IN  IF IsSuspiciousEndpoint(endpoint)
        THEN [raised |-> FALSE, out |-> << >>]
        ELSE IF IsStr(raw_log, "response_time_ms")
        THEN [raised |-> TRUE, out |-> << >>]
        ELSE IF IsStr(raw_log, "status_code")
        THEN [raised |-> TRUE, out |-> perf]
        ELSE [raised |-> FALSE, out |-> perf \o err]

\* a for loop over the rows from row i on, inside the try: an exception in
\* a row ends the loop, and what was appended so far is kept
RECURSIVE RuleLoop(_, _, _, _)
RuleLoop(rule, rows, i, acc) ==
    IF i > Len(rows)
    THEN [raised |-> FALSE, out |-> acc]
    ELSE LET r == IF rule = 1 THEN SuspiciousEndpointRule(rows, i)
                  ELSE StandaloneRules(rows, i)
         IN  IF r.raised
             THEN [raised |-> TRUE, out |-> acc \o r.out]
             ELSE RuleLoop(rule, rows, i + 1, acc \o r.out)

\* lines 164-264: the result of detect_anomalies and whether its except
\* branch ran
detect_anomalies(rows) ==
    IF Len(rows) < MIN_ROWS
    THEN [raised |-> FALSE, out |-> << >>]
    ELSE LET first == RuleLoop(1, rows, 1, << >>)
         IN  IF first.raised THEN first
             ELSE RuleLoop(2, rows, 1, first.out)

-----------------------------------------------------------------------------
(***************************************************************************)
(* The detection cycle.  A response of Loki is how the request ended and,  *)
(* when it was answered, the entries of the streams in order.              *)
(***************************************************************************)
\* an entry whose line is the JSON text of log
JsonEntry(log) == [kind |-> "json", log |-> log]

\* an entry whose line is no JSON text: json.JSONDecodeError, line 99
NotJsonEntry == [kind |-> "not_json"]

\* an entry that is no [timestamp, line] pair: the unpacking of line 94
\* raises ValueError
NotAPairEntry == [kind |-> "not_a_pair"]

Entries(ls) == [i \in 1..Len(ls) |-> JsonEntry(ls[i])]

Answer(values) == [status |-> "ok", values |-> values]

\* lines 85-86: no answer within the 10 s of the timeout, no connection, or
\* an error status
FailedResponses ==
    {[status |-> status, values |-> << >>] :
        status \in {"timeout", "connection_error", "http_error"}}

\* lines 92-100: the loop over the entries from entry i on
RECURSIVE ParseValues(_, _, _)
ParseValues(values, i, parsed) ==
    IF i > Len(values) THEN [raised |-> FALSE, logs |-> parsed]
    ELSE IF values[i].kind = "not_a_pair" THEN [raised |-> TRUE, logs |-> parsed]
    ELSE IF values[i].kind = "not_json" THEN ParseValues(values, i + 1, parsed)
    ELSE ParseValues(values, i + 1, Append(parsed, values[i].log))

\* lines 65-106: any exception inside the try returns the empty list
fetch_logs_from_loki(resp) ==
    IF resp.status # "ok" THEN << >>
    ELSE IF ParseValues(resp.values, 1, << >>).raised THEN << >>
    ELSE ParseValues(resp.values, 1, << >>).logs

\* SendAnomalyAlertRaises with the failure of the push left uncaught
SendAnomalyAlertPropagates(push_failed) == push_failed

\* lines 277-301: whether an exception leaves _send_anomaly_alert; the try
\* holds the whole body and the except catches every Exception
SendAnomalyAlertRaises(push_failed) == FALSE

\* lines 268-273: the loop over the anomalies from anomaly k on; failing is
\* the set of the pushes that fail (timeout of 5 s, no connection, error
\* status)
RECURSIVE ProcessFrom(_, _, _, _, _)
ProcessFrom(anoms, k, failing, issued, errors) ==
    IF k > Len(anoms)
    THEN [raised |-> FALSE, issued |-> issued, errors |-> errors]
    ELSE IF SendAnomalyAlertRaises(k \in failing)
    THEN [raised |-> TRUE, issued |-> issued + 1, errors |-> errors]
    ELSE ProcessFrom(anoms, k + 1, failing, issued + 1,
                     IF k \in failing THEN errors + 1 ELSE errors)

\* lines 266-273
process_anomalies(anoms, failing) == ProcessFrom(anoms, 1, failing, 0, 0)

\* the logs a response carries in the model: a record p after a run of
\* records f and before a run of records g
Batch(before, f, p, g, after) == Rep(f, before) \o <<p>> \o Rep(g, after)

\* lines 303-327: one run of run_detection_cycle on the response the fetch
\* gets; an exception that leaves it ends start_monitoring (lines 337-342)
CycleOn(resp, failing) ==
    /\ response' = resp
    /\ logs' = fetch_logs_from_loki(resp)
    /\ df' = extract_features(logs')
    /\ anomalies' = detect_anomalies(df').out
    /\ detect_raised' = detect_anomalies(df').raised
    /\ pushed' = process_anomalies(anomalies', failing).issued
    /\ push_errors' = process_anomalies(anomalies', failing).errors
    /\ dpc' = IF process_anomalies(anomalies', failing).raised
              THEN "crashed" ELSE "done"
    /\ UNCHANGED <<alert_vars, severity_vars, loop_vars>>

\* the cycle runs on what Loki answered, every push going through: no
\* entry, a record of any kind among normal, failed and malformed requests,
\* or a request with missing, null or odd fields among normal and failed
\* requests
RunDetectionCycle ==
    /\ dpc = "idle"
    /\ \/ CycleOn(Answer(<< >>), {})
       \/ \E n \in 1..MaxBatch, before \in 0..MaxBatch, f \in Fillers,
             g \in Fillers, p \in LogRecords :
             /\ before < n
             /\ CycleOn(Answer(Entries(Batch(before, f, p, g, n - 1 - before))), {})
       \/ \E n \in 1..MaxBatch, before \in 0..MaxBatch,
             f \in {NormalRecord, ErrorRecord}, g \in {NormalRecord, ErrorRecord},
             p \in ExtractRecords :
             /\ before < n
             /\ CycleOn(Answer(Entries(Batch(before, f, p, g, n - 1 - before))), {})

\* the pushes that fail in the model: the first, the second, both, or all
PushFailures == {{1}, {2}, {1, 2}, 1..(2 * MaxBatch)}

\* the cycle runs into a failure: the fetch fails, an entry of the answer
\* is no JSON, no pair or a record that does not convert, or pushes fail
RunCycleUnderFailure ==
    /\ dpc = "idle"
    /\ \/ \E resp \in FailedResponses : CycleOn(resp, {})
       \/ \E n \in 1..MaxBatch, before \in 0..MaxBatch, f \in Fillers,
             g \in Fillers,
             entry \in {NotJsonEntry, NotAPairEntry, JsonEntry(NullRecord)} :
             /\ before < n
             /\ CycleOn(Answer(Batch(before, JsonEntry(f), entry, JsonEntry(g),
                                     n - 1 - before)), {})
       \/ \E n \in 1..MaxBatch, before \in 0..MaxBatch, f \in Fillers,
             g \in Fillers, p \in Fillers, failing \in PushFailures :
             /\ before < n
             /\ CycleOn(Answer(Entries(Batch(before, f, p, g, n - 1 - before))),
                        failing)

\* lines 340-342: the cycle's locals are gone, the scheduler waits
AwaitNextCycle ==
    /\ dpc = "done"
    /\ dpc' = "idle"
    /\ response' = Answer(<< >>)
    /\ logs' = << >>
    /\ df' = << >>
    /\ anomalies' = << >>
    /\ detect_raised' = FALSE
    /\ pushed' = 0
    /\ push_errors' = 0
    /\ UNCHANGED <<alert_vars, severity_vars, loop_vars>>

DetectorInit ==
    /\ dpc = "idle"
    /\ response = Answer(<< >>)
    /\ logs = << >>
    /\ df = << >>
    /\ anomalies = << >>
    /\ detect_raised = FALSE
    /\ pushed = 0
    /\ push_errors = 0

-----------------------------------------------------------------------------
(***************************************************************************)
(* AlertHandler.  anomaly_data is a dict; the field timestamp holds the    *)
(* kind of value stored under that key, "datetime" for a datetime object   *)
(* (what detect_anomalies and the module's own example put there) and      *)
(* "isoformat" for a string.                                               *)
(***************************************************************************)
HIGH_TYPES == {"response_time_anomaly", "status_code_anomaly"}

\* determine_severity with both cuts inclusive
determine_severity_inclusive(anomaly_data) ==
    LET score == Get(anomaly_data, "score", 0)
        anomaly_type == Get(anomaly_data, "type", "")
    IN  IF score >= 80 \/ anomaly_type \in HIGH_TYPES THEN "HIGH"
        ELSE IF score >= 50 THEN "MEDIUM"
        ELSE "LOW"

\* lines 49-59
determine_severity(anomaly_data) ==
    LET score == Get(anomaly_data, "score", 0)
        anomaly_type == Get(anomaly_data, "type", "")
    IN  IF score > 80 \/ anomaly_type \in HIGH_TYPES THEN "HIGH"
        ELSE IF score > 50 THEN "MEDIUM"
        ELSE "LOW"

\* json.dumps without a default: raises TypeError on a datetime
JsonSerializable(anomaly_data) ==
    Get(anomaly_data, "timestamp", "isoformat") # "datetime"

\* lines 26-33
MakeAlert(anomaly_data, utcnow) ==
    [timestamp |-> utcnow,
     severity |-> determine_severity(anomaly_data),
     anomaly_type |-> Get(anomaly_data, "type", "unknown"),
     anomaly_score |-> Get(anomaly_data, "score", 0),
     message |-> <<"Anomaly detected: ", Get(anomaly_data, "type", "unknown")>>,
     details |-> anomaly_data]

\* the module's example (lines 116-122)
SampleAnomaly ==
    [timestamp |-> "datetime", type |-> "response_time_anomaly", score |-> 85]

AnomalyData ==
    { SampleAnomaly,
      [timestamp |-> "isoformat", type |-> "error_anomaly", score |-> 90],
      [timestamp |-> "isoformat", type |-> "suspicious_endpoint_anomaly", score |-> 70],
      [score |-> 50] }

\* lines 24-47: send_alert; webhook_ok is whether the POST, when one is
\* made, succeeds (any failure is caught in _send_webhook, lines 63-73,
\* and _send_email only logs)
SendAlert(anomaly_data, webhook_ok) ==
    LET alert == MakeAlert(anomaly_data, now)
    IN  /\ call_log' = Append(call_log, anomaly_data)
        /\ summary' = << >>
        /\ IF ~JsonSerializable(anomaly_data)
           THEN \* line 36 raises: nothing stored, nothing sent
                UNCHANGED <<alert_history, delivered>>
           ELSE /\ alert_history' = Append(alert_history, alert)
                /\ delivered' = IF webhook_url # "" /\ webhook_ok
                                THEN Append(delivered, alert)
                                ELSE delivered
        /\ UNCHANGED <<webhook_url, now>>
        /\ UNCHANGED <<detector_vars, severity_vars, loop_vars>>

\* RecentAlerts with the alerts at the cutoff kept
RecentAlertsFromCutoff(history, cutoff_time) ==
    SelectSeq(history, LAMBDA alert : alert.timestamp >= cutoff_time)

\* lines 85-88: the alerts later than the cutoff, in history order
RecentAlerts(history, cutoff_time) ==
    SelectSeq(history, LAMBDA alert : alert.timestamp > cutoff_time)

\* lines 97-98: counts[key] = counts.get(key, 0) + 1
Bump(counts, key) ==
    [k \in DOMAIN counts \cup {key} |->
        IF k = key THEN Get(counts, key, 0) + 1 ELSE counts[k]]

\* lines 90-98: the loop over recent_alerts, for one of the two dicts
RECURSIVE CountBy(_, _, _, _)
CountBy(recent, field, i, counts) ==
    IF i > Len(recent) THEN counts
    ELSE CountBy(recent, field, i + 1, Bump(counts, recent[i][field]))

\* lines 81-105
get_alert_summary(history, utcnow, hours) ==
    LET cutoff_time == utcnow - hours
        recent_alerts == RecentAlerts(history, cutoff_time)
    IN  [total_alerts |-> Len(recent_alerts),
         severity_breakdown |-> CountBy(recent_alerts, "severity", 1, << >>),
         type_breakdown |-> CountBy(recent_alerts, "anomaly_type", 1, << >>),
         time_range_hours |-> hours]

\* HistoryAfterSummary with the filtered list stored back in the history
HistoryPrunedBySummary(history, utcnow, hours) ==
    SelectSeq(history, LAMBDA alert : alert.timestamp > utcnow - hours)

\* self.alert_history after get_alert_summary: the comprehension of lines
\* 85-88 builds a new list and the history is not assigned
HistoryAfterSummary(history, utcnow, hours) == history

LatestTwo(outputs) ==
    IF Len(outputs) > 2 THEN SubSeq(outputs, Len(outputs) - 1, Len(outputs))
    ELSE outputs

GetAlertSummary(hours) ==
    /\ summary' = LatestTwo(Append(summary,
                        [out |-> get_alert_summary(alert_history, now, hours),
                         hours |-> hours, at |-> now]))
    /\ alert_history' = HistoryAfterSummary(alert_history, now, hours)
    /\ UNCHANGED <<webhook_url, now, delivered, call_log>>
    /\ UNCHANGED <<detector_vars, severity_vars, loop_vars>>

\* time passes
Tick ==
    /\ now < MaxClock
    /\ now' = now + 1
    /\ UNCHANGED <<webhook_url, alert_history, delivered, call_log, summary>>
    /\ UNCHANGED <<detector_vars, severity_vars, loop_vars>>

SendAlertStep ==
    /\ Len(call_log) < MaxCalls
    /\ \E anomaly_data \in AnomalyData, webhook_ok \in BOOLEAN :
          SendAlert(anomaly_data, webhook_ok)

GetAlertSummaryStep == \E hours \in 0..MaxHours : GetAlertSummary(hours)

\* lines 15-18, with or without a webhook
AlertInit ==
    /\ webhook_url \in {"", "https://hooks.slack.com/your-webhook-url"}
    /\ alert_history = << >>
    /\ now = 0
    /\ delivered = << >>
    /\ call_log = << >>
    /\ summary = << >>

AlertNext == SendAlertStep \/ GetAlertSummaryStep \/ Tick

-----------------------------------------------------------------------------
(***************************************************************************)
(* _determine_severity on every score and type.                            *)
(***************************************************************************)
AnomalyTypes ==
    {"response_time_anomaly", "status_code_anomaly", "error_anomaly",
     "performance_anomaly", "suspicious_endpoint_anomaly", "isolation_forest"}

SeverityInputs ==
    [type : AnomalyTypes, score : 0..MaxScore]
        \cup [type : AnomalyTypes] \cup [score : 0..MaxScore]

DetermineSeverity ==
    \E anomaly_data \in SeverityInputs :
        /\ sev_in' = <<anomaly_data>>
        /\ sev_out' = determine_severity(anomaly_data)
        /\ UNCHANGED <<detector_vars, alert_vars, loop_vars>>

SeverityInit ==
    /\ sev_in = << >>
    /\ sev_out = ""

-----------------------------------------------------------------------------
(***************************************************************************)
(* The metric loop of detect.py.                                           *)
(***************************************************************************)
WINDOW == 100

FIT_ABOVE == 10

\* KeepLast with the slice taken from the front, [:100]
KeepFirst(features) ==
    IF Len(features) > WINDOW THEN SubSeq(features, 1, WINDOW) ELSE features

\* lines 158-159: historical_features[-100:] when longer than 100
KeepLast(features) ==
    IF Len(features) > WINDOW
    THEN SubSeq(features, Len(features) - WINDOW + 1, Len(features))
    ELSE features

\* line 161
EnoughToFit(features) == Len(features) > FIT_ABOVE

\* where a pass stands while it has not ended
InPass == {"querying", "blocked"}

\* lines 128-134: a pass starts and sends its query to Loki; requests.get
\* is called with no timeout (line 21), so the pass waits for the answer
LoopQuery ==
    /\ outcome \notin InPass
    /\ outcome' = "querying"
    /\ UNCHANGED <<historical_features, appended, loop_pushed>>
    /\ UNCHANGED <<detector_vars, alert_vars, severity_vars>>

\* line 21: Loki never answers and never closes the connection; with no
\* timeout the call does not return
LoopQueryUnanswered ==
    /\ outcome = "querying"
    /\ outcome' = "blocked"
    /\ UNCHANGED <<historical_features, appended, loop_pushed>>
    /\ UNCHANGED <<detector_vars, alert_vars, severity_vars>>

\* lines 134-152: the query returned or raised, and the pass ends early:
\* nothing is appended
LoopSkip ==
    /\ outcome = "querying"
    /\ \E why \in {"no_logs", "no_metrics", "no_features"} : outcome' = why
    /\ UNCHANGED <<historical_features, appended, loop_pushed>>
    /\ UNCHANGED <<detector_vars, alert_vars, severity_vars>>

\* lines 155-177: the pass appends its features; fit_ok is whether fit and
\* scoring go through (an exception is caught at line 179), push_returns
\* whether the push of line 116, sent with no timeout, comes back (answered
\* or failed, both end the pass the same way)
LoopAppend ==
    /\ outcome = "querying"
    /\ appended < MaxAppends
    /\ \E fit_ok \in BOOLEAN, push_returns \in BOOLEAN :
        LET window == KeepLast(Append(historical_features, appended + 1))
        IN  /\ historical_features' = window
            /\ appended' = appended + 1
            /\ IF EnoughToFit(window)
               THEN IF fit_ok
                    THEN IF push_returns
                         THEN outcome' = "scored" /\ loop_pushed' = loop_pushed + 1
                         ELSE outcome' = "blocked" /\ UNCHANGED loop_pushed
                    ELSE outcome' = "error" /\ UNCHANGED loop_pushed
               ELSE outcome' = "collecting" /\ UNCHANGED loop_pushed
    /\ UNCHANGED <<detector_vars, alert_vars, severity_vars>>

\* line 123
LoopInit ==
    /\ historical_features = << >>
    /\ appended = 0
    /\ outcome = "start"
    /\ loop_pushed = 0

LoopNext == LoopQuery \/ LoopQueryUnanswered \/ LoopSkip \/ LoopAppend

-----------------------------------------------------------------------------
Init == DetectorInit /\ AlertInit /\ SeverityInit /\ LoopInit

\* the handler constructed as the module's example does (lines 110-113)
InitWithWebhook == Init /\ webhook_url # ""

DetectorNext == RunDetectionCycle \/ RunCycleUnderFailure \/ AwaitNextCycle

\* the cycles that run into a failure, and the scheduler
MonitoringNext == RunCycleUnderFailure \/ AwaitNextCycle

SpecDetector == InitWithWebhook /\ [][DetectorNext]_vars

\* lines 340-342: the loop of start_monitoring keeps running the pending
\* cycle, and a cycle that started returns
SpecMonitoring ==
    /\ InitWithWebhook
    /\ [][MonitoringNext]_vars
    /\ WF_vars(RunCycleUnderFailure)
    /\ WF_vars(AwaitNextCycle)

SpecAlerts == Init /\ [][AlertNext]_vars

SpecSeverity == InitWithWebhook /\ [][DetermineSeverity]_vars

SpecLoop == InitWithWebhook /\ [][LoopNext]_vars

\* lines 125-182: the while True loop takes the step it can take
SpecLoopRunning == SpecLoop /\ WF_vars(LoopNext)

Next == DetectorNext \/ AlertNext \/ DetermineSeverity \/ LoopNext

Spec == Init /\ [][Next]_vars


-----------------------------------------------------------------------------
(***************************************************************************)
(* Properties of the detection cycle.                                      *)
(***************************************************************************)
Rows == 1..Len(logs)

Emitted(i, type) == {k \in 1..Len(anomalies) :
                        anomalies[k].row = i /\ anomalies[k].type = type}

\* a record with every field of the rules, none of them mistyped
WellTyped(raw_log) == raw_log \in LogRecords /\ raw_log.strs = {}

\* detect_anomalies went through the batch: it had the rows it needs and
\* no row raised
Evaluated == dpc = "done" /\ Len(df) >= MIN_ROWS /\ ~detect_raised

\* C1: every record with status_code >= 500 gets an error_anomaly of score
\* 0.9 with reason server_error_<code>, and every record with
\* response_time_ms > 5000 a performance_anomaly of score 0.8, whatever its
\* endpoint (stated for the batches detect_anomalies went through)
C1_StandaloneRulesOnAnyEndpoint ==
    Evaluated =>
        \A i \in Rows :
            WellTyped(logs[i]) =>
                /\ logs[i].status_code >= 500 =>
                      \E k \in Emitted(i, "error_anomaly") :
                          /\ anomalies[k].score = 90
                          /\ anomalies[k].reasons =
                                << <<"server_error", logs[i].status_code>> >>
                /\ logs[i].response_time_ms > 5000 =>
                      \E k \in Emitted(i, "performance_anomaly") :
                          anomalies[k].score = 80

\* the weighted conditions of the rule table, in its order
C2_Table(raw_log) ==
    << [holds |-> raw_log.suspicious_behavior, weight |-> 40,
        tag |-> "suspicious_behavior_flag"],
       [holds |-> raw_log.unusual_pattern, weight |-> 30,
        tag |-> "unusual_pattern_flag"],
       [holds |-> raw_log.anomaly_score > 70, weight |-> 30,
        tag |-> "high_anomaly_score"],
       [holds |-> raw_log.response_time_ms > 2000, weight |-> 20,
        tag |-> "slow_response"],
       [holds |-> raw_log.response_size > 1000, weight |-> 10,
        tag |-> "large_response"] >>

C2_Holding(raw_log) == SelectSeq(C2_Table(raw_log), LAMBDA c : c.holds)

RECURSIVE C2_Sum(_)
C2_Sum(conditions) ==
    IF conditions = << >> THEN 0
    ELSE Head(conditions).weight + C2_Sum(Tail(conditions))

C2_Tags(conditions) == [j \in 1..Len(conditions) |-> conditions[j].tag]

C2_RuleOn(i) ==
    LET holding == C2_Holding(logs[i])
        flagged == Emitted(i, "suspicious_endpoint_anomaly")
    IN  /\ (C2_Sum(holding) > 50) <=> (flagged # {})
        /\ \A k \in flagged :
              /\ anomalies[k].score = C2_Sum(holding)
              /\ [j \in 1..Len(anomalies[k].reasons) |-> anomalies[k].reasons[j][1]]
                    = C2_Tags(holding)

\* C2: in a batch of at least 5 rows, a record on /api/suspicious is flagged
\* suspicious_endpoint_anomaly exactly when the weights of the conditions
\* that hold sum to more than 0.5, with that sum as score and the tags of
\* those conditions, in order, as reasons
C2_WeightedRuleOnSuspiciousEndpoint ==
    (dpc = "done" /\ Len(df) >= MIN_ROWS) =>
        \A i \in Rows :
            (WellTyped(logs[i]) /\ IsSuspiciousEndpoint(logs[i].endpoint))
                => C2_RuleOn(i)

\* the same, over the batches in which no row raised (not the claim: it
\* shows that C2 fails only through the abandoned loop)
WeightedRuleWhenNoRowRaises ==
    Evaluated =>
        \A i \in Rows :
            (WellTyped(logs[i]) /\ IsSuspiciousEndpoint(logs[i].endpoint))
                => C2_RuleOn(i)

\* C3: every anomaly detect_anomalies emits has a score within [0, 1]
C3_ScoreInUnitInterval ==
    \A k \in 1..Len(anomalies) :
        anomalies[k].score >= 0 /\ anomalies[k].score <= 100

\* the batch is made of normal records and of the same records failing
\* with status 500
C5_Batch == \A i \in Rows : logs[i] \in {NormalRecord, ErrorRecord}

C5_Errors == {i \in Rows : logs[i] = ErrorRecord}

C5_Result ==
    /\ Len(anomalies) = Cardinality(C5_Errors)
    /\ \A i \in C5_Errors : Cardinality(Emitted(i, "error_anomaly")) = 1
    /\ \A k \in 1..Len(anomalies) :
          /\ anomalies[k].type = "error_anomaly"
          /\ anomalies[k].row \in C5_Errors
          /\ determine_severity(anomalies[k]) = "HIGH"

C11_Components ==
    {"response_time_ms", "status_code", "hour", "minute", "day_of_week",
     "endpoint_length", "user_agent_length", "timestamp", "raw_log",
     "anomaly_score", "suspicious_behavior", "src"}

\* the rows extract_features built from log i
RowsOf(i) == {r \in 1..Len(df) : df[r].src = i}

\* every field the record has holds a value of the kind the field is for
C11_NoOddValue(log) ==
    /\ "nulls" \notin DOMAIN log
    /\ "nums" \notin DOMAIN log

C11_Row(log, row) ==
    /\ DOMAIN row = C11_Components
    /\ row.raw_log = log
    /\ row.response_time_ms =
          (IF "response_time_ms" \in DOMAIN log THEN log.response_time_ms ELSE 0)
    /\ row.status_code =
          (IF "status_code" \in DOMAIN log THEN log.status_code ELSE 200)
    /\ row.endpoint_length =
          (IF "endpoint" \in DOMAIN log THEN Len(log.endpoint) ELSE 0)
    /\ row.user_agent_length =
          (IF "user_agent" \in DOMAIN log THEN Len(log.user_agent) ELSE 0)

\* C11: a record that lacks any subset of its fields is not skipped: it
\* gets exactly one feature row, with the fixed set of components, 0 for a
\* missing response_time_ms, 200 for a missing status_code and length 0 for
\* a missing endpoint or user_agent
C11_MissingFieldsGetDefaults ==
    dpc = "done" =>
        \A i \in Rows :
            C11_NoOddValue(logs[i]) =>
                /\ Cardinality(RowsOf(i)) = 1
                /\ \A r \in RowsOf(i) : C11_Row(logs[i], df[r])

C11_Witness ==
    /\ dpc = "done"
    /\ Len(df) = Len(logs)
    /\ \E i \in Rows :
          /\ DOMAIN logs[i] = {"timestamp", "anomaly_score"}
          /\ \E r \in RowsOf(i) :
                /\ df[r].status_code = 200
                /\ df[r].response_time_ms = 0
                /\ df[r].endpoint_length = 0
                /\ df[r].user_agent_length = 0

\* the timestamp texts the two accepted formats cover
C12_AcceptedTexts ==
    {"2025-01-06T10:30:00Z", "2025-01-06T10:30:00.123456",
     "2025-01-06 10:30:00.123456", "2025-01-06 10:30:00.5"}

\* the timestamp is missing, null, empty, in neither format, or no text
C12_BadTimestamp(log) ==
    \/ "timestamp" \notin DOMAIN log
    \/ "timestamp" \in Get(log, "nulls", {})
    \/ "timestamp" \in Get(log, "nums", {})
    \/ log.timestamp \notin C12_AcceptedTexts

\* no other field of the record is odd
C12_OtherFieldsFine(log) ==
    /\ Get(log, "nulls", {}) \subseteq {"timestamp"}
    /\ Get(log, "nums", {}) \subseteq {"timestamp"}

\* C12: a record whose timestamp is missing, empty, unparseable in both
\* formats or otherwise invalid still gets its feature row, with the time
\* of processing as timestamp
C12_NeverDroppedForBadTimestamp ==
    dpc = "done" =>
        \A i \in Rows :
            (C12_OtherFieldsFine(logs[i]) /\ C12_BadTimestamp(logs[i])) =>
                /\ RowsOf(i) # {}
                /\ \A r \in RowsOf(i) : df[r].timestamp.utcnow

\* the same over the records whose timestamp is a text, or is missing or
\* null (not the claim: it shows C12 fails only for a timestamp that is no
\* text)
BadTimestampTextGetsProcessingTime ==
    dpc = "done" =>
        \A i \in Rows :
            (/\ C12_OtherFieldsFine(logs[i])
             /\ C12_BadTimestamp(logs[i])
             /\ "timestamp" \notin Get(logs[i], "nums", {})) =>
                /\ RowsOf(i) # {}
                /\ \A r \in RowsOf(i) : df[r].timestamp.utcnow

\* the rules raise on the record: a field they compare is a text
C13_RulesRaise(raw_log) ==
    \E key \in {"response_time_ms", "status_code", "anomaly_score",
                 "response_size"} :
        /\ key \in Get(raw_log, "strs", {})
        /\ IF Get(raw_log, "endpoint", "") = SUSPICIOUS
           THEN key # "status_code"
           ELSE key \in {"response_time_ms", "status_code"}

\* the rows of the records the rules do not raise on
C13_OtherRows == SelectSeq(df, LAMBDA row : ~C13_RulesRaise(row.raw_log))

C13_OfOtherRows ==
    SelectSeq(anomalies, LAMBDA a : ~C13_RulesRaise(a.raw_log))

\* both rule loops run over the rows
C13_Rules(rows) == RuleLoop(2, rows, 1, RuleLoop(1, rows, 1, << >>).out).out

\* C13: a record that raises is skipped and the others are still extracted
\* and evaluated: in a batch the rules are run on, the anomalies of the
\* other records are those the rules give on the other records alone
C13_BadRecordNeverHaltsBatch ==
    (dpc = "done" /\ Len(df) >= MIN_ROWS) =>
        C13_OfOtherRows = C13_Rules(C13_OtherRows)

\* the entries of the answer that are no pair
C14_Failing ==
    {i \in 1..Len(response.values) : response.values[i].kind = "not_a_pair"}

\* the entries before the first of them
C14_Before ==
    SubSeq(response.values, 1,
           (CHOOSE i \in C14_Failing : \A j \in C14_Failing : i <= j) - 1)

C14_Obtained ==
    LET parsed == SelectSeq(C14_Before, LAMBDA entry : entry.kind = "json")
    IN  [i \in 1..Len(parsed) |-> parsed[i].log]

\* C14: when the fetch fails after some entries were parsed, the cycle
\* goes on with those entries: they are what fetch_logs_from_loki returns
\* and what is extracted
C14_CycleContinuesWithObtainedEntries ==
    (dpc = "done" /\ C14_Failing # {}) =>
        /\ logs = C14_Obtained
        /\ df = extract_features(C14_Obtained)

\* C18: no record is the raw_log of two anomalies of the same batch
C18_AtMostOneAnomalyPerRecord ==
    \A i \in Rows : Cardinality({k \in 1..Len(anomalies) : anomalies[k].row = i}) <= 1

\* a cycle ran into a failure
C15_Failed ==
    \/ response.status # "ok"
    \/ \E i \in 1..Len(response.values) : response.values[i].kind # "json"
    \/ Len(df) < Len(logs)
    \/ detect_raised
    \/ push_errors > 0

\* C15: no recovered error ends the monitoring: a cycle in which the fetch
\* fails, a record is malformed, the rules raise or a push fails never
\* crashes, issues one push per anomaly whatever pushes failed, and is
\* followed by the next cycle
C15_NoRecoveredErrorIsFatal ==
    /\ [](dpc # "crashed")
    /\ [](dpc = "done" => pushed = Len(anomalies))
    /\ []((dpc = "done" /\ C15_Failed) => <>(dpc = "idle"))
    /\ []<>(dpc = "done")

C15_Witness ==
    /\ dpc = "done"
    /\ C15_Failed
    /\ push_errors = 1
    /\ pushed = 3
    /\ Len(anomalies) = 3

-----------------------------------------------------------------------------
(***************************************************************************)
(* Properties of _determine_severity.                                      *)
(***************************************************************************)
C4_Score == Get(sev_in[1], "score", 0)

C4_High ==
    \/ C4_Score > 80
    \/ Get(sev_in[1], "type", "") \in {"response_time_anomaly", "status_code_anomaly"}

\* C4: the severity is HIGH when score > 0.8 or the type is
\* response_time_anomaly or status_code_anomaly, otherwise MEDIUM when
\* score > 0.5, otherwise LOW, for every score and type
C4_SeverityPrecedence ==
    sev_in # << >> =>
        /\ sev_out \in {"HIGH", "MEDIUM", "LOW"}
        /\ (sev_out = "HIGH") <=> C4_High
        /\ (sev_out = "MEDIUM") <=> (~C4_High /\ C4_Score > 50)
        /\ (sev_out = "LOW") <=> (~C4_High /\ C4_Score <= 50)

C4_Witness ==
    /\ sev_in # << >>
    /\ C4_Score = 80
    /\ Get(sev_in[1], "type", "") = "error_anomaly"
    /\ sev_out = "MEDIUM"

-----------------------------------------------------------------------------
(***************************************************************************)
(* Properties of the metric loop.                                          *)
(***************************************************************************)
C6_Held == IF appended < WINDOW THEN appended ELSE WINDOW

\* C6: the training window never holds more than 100 vectors, and after n
\* appends it holds the last min(n, 100) vectors appended, in append order
C6_WindowHoldsLastAppends ==
    /\ Len(historical_features) <= WINDOW
    /\ Len(historical_features) = C6_Held
    /\ \A i \in 1..Len(historical_features) :
          historical_features[i] = appended - C6_Held + i

C6_Witness ==
    /\ appended = WINDOW + 2
    /\ Len(historical_features) = WINDOW
    /\ historical_features[1] = 3
    /\ historical_features[WINDOW] = WINDOW + 2

MinSamples == 10

\* the latest pass appended its features
C7_Appended == outcome \in {"collecting", "scored", "error"}

\* C7: a pass fits and scores the model whenever the window holds at least
\* MinSamples = 10 vectors, and skips fitting when it holds fewer
C7_FitsFromMinSamples ==
    C7_Appended =>
        /\ Len(historical_features) >= MinSamples => outcome # "collecting"
        /\ Len(historical_features) < MinSamples => outcome = "collecting"

\* C16: every outbound call carries a timeout, so a pass that started
\* ends even when the upstream never answers
C16_EveryStartedPassEnds ==
    [](outcome = "querying" => <>(outcome \notin {"querying", "blocked"}))

-----------------------------------------------------------------------------
(***************************************************************************)
(* Properties of the alert handler.                                        *)
(***************************************************************************)
\* C8: after any sequence of send_alert calls, whatever the webhook did,
\* the history holds one alert per call, in call order
C8_OneAlertPerCall ==
    /\ Len(alert_history) = Len(call_log)
    /\ \A i \in 1..Len(alert_history) : alert_history[i].details = call_log[i]

\* C17: every call of send_alert, whatever the anomaly_data, appends one
\* alert to the history, with the severity of _determine_severity, the type
\* ('unknown' when missing) and the score (0 when missing) of the data, and
\* leaves the earlier alerts as they were
C17_EveryCallAppendsOneAlert ==
    [][SendAlertStep =>
          /\ Len(alert_history') = Len(alert_history) + 1
          /\ SubSeq(alert_history', 1, Len(alert_history)) = alert_history
          /\ LET alert == alert_history'[Len(alert_history')]
                 anomaly_data == call_log'[Len(call_log')]
             IN  /\ alert.severity = determine_severity(anomaly_data)
                 /\ alert.anomaly_type =
                       (IF "type" \in DOMAIN anomaly_data THEN anomaly_data.type
                        ELSE "unknown")
                 /\ alert.anomaly_score =
                       (IF "score" \in DOMAIN anomaly_data THEN anomaly_data.score
                        ELSE 0)]_vars

\* the history positions a summary asked for at time at over hours counts
C9_InWindow(at, hours) ==
    {i \in 1..Len(alert_history) : alert_history[i].timestamp > at - hours}

C9_Breakdown(breakdown, field, window) ==
    /\ DOMAIN breakdown = {alert_history[i][field] : i \in window}
    /\ \A key \in DOMAIN breakdown :
          /\ breakdown[key] =
                Cardinality({i \in window : alert_history[i][field] = key})
          /\ breakdown[key] > 0

RECURSIVE C9_Total(_, _)
C9_Total(breakdown, keys) ==
    IF keys = {} THEN 0
    ELSE LET key == CHOOSE k \in keys : TRUE
         IN  breakdown[key] + C9_Total(breakdown, keys \ {key})

C9_Output(s) ==
    LET window == C9_InWindow(s.at, s.hours)
    IN  /\ s.out.total_alerts = Cardinality(window)
        /\ C9_Breakdown(s.out.severity_breakdown, "severity", window)
        /\ C9_Breakdown(s.out.type_breakdown, "anomaly_type", window)
        /\ C9_Total(s.out.severity_breakdown, DOMAIN s.out.severity_breakdown)
              = s.out.total_alerts
        /\ C9_Total(s.out.type_breakdown, DOMAIN s.out.type_breakdown)
              = s.out.total_alerts
        /\ s.out.time_range_hours = s.hours
        /\ alert_history = << >> =>
              /\ s.out.total_alerts = 0
              /\ DOMAIN s.out.severity_breakdown = {}
              /\ DOMAIN s.out.type_breakdown = {}

\* C9: the summary counts the history alerts later than now minus hours, in
\* total, per severity and per type, with no zero count, and returns hours
\* (the history is the one the call read: no send_alert was made since)
C9_SummaryCounts ==
    summary # << >> => C9_Output(summary[Len(summary)])

C9_Witness ==
    /\ summary # << >>
    /\ Len(alert_history) = 2
    /\ summary[Len(summary)].out.total_alerts = 1
    /\ summary[Len(summary)].hours = 1

C10_SameCall == Len(summary) = 2 /\ summary[1].hours = summary[2].hours

\* C10 as stated: two calls with the same argument and no send_alert in
\* between return identical output
C10_SameOutputTwice == C10_SameCall => summary[1].out = summary[2].out

C10_NoMore(later, earlier) ==
    /\ DOMAIN later \subseteq DOMAIN earlier
    /\ \A key \in DOMAIN later : later[key] <= earlier[key]

\* C10 amended: a call leaves alert_history unchanged; two calls with the
\* same argument and no send_alert in between return identical output when
\* the clock reads the same at both, and otherwise the later call counts no
\* alert the earlier one did not count
C10_ReadOnlyAndStableInTime ==
    /\ [][GetAlertSummaryStep => alert_history' = alert_history]_vars
    /\ [](C10_SameCall =>
            /\ summary[1].at = summary[2].at => summary[1].out = summary[2].out
            /\ summary[2].out.total_alerts <= summary[1].out.total_alerts
            /\ C10_NoMore(summary[2].out.severity_breakdown,
                          summary[1].out.severity_breakdown)
            /\ C10_NoMore(summary[2].out.type_breakdown,
                          summary[1].out.type_breakdown))

C10_Witness ==
    /\ C10_SameCall
    /\ summary[1].at < summary[2].at
    /\ summary[1].out.total_alerts = 1
    /\ summary[2].out.total_alerts = 0
    /\ Len(alert_history) = 1

=============================================================================
